---- MODULE Spec2Model ----
(***************************************************************************)
(* A model of app.py: the object-detection front end.                      *)
(*                                                                         *)
(* Text is modelled as a sequence of one-character strings, so that the    *)
(* string operations of the handlers (rsplit, lower, strip, startswith,    *)
(* secure_filename, splitext, Path.stem/.suffix, the f-strings that build  *)
(* file names) are computed character by character, as the code does.      *)
(***************************************************************************)
EXTENDS Integers, Sequences, FiniteSets, TLC

(***************************************************************************)
(* Bounds of the model.                                                    *)
(***************************************************************************)
\* the wall clock (time.time(), in whole seconds) advances at most this often
MaxTicks == 1
\* a streamed response body delivers at most this many chunks
MaxChunks == 2
\* the engine reports at most this many boxes for one image
MaxBoxes == 2
\* the wall clock's value when the process starts
Epoch == 1700000000

(***************************************************************************)
(* Program constants.                                                      *)
(***************************************************************************)
\* Python's None, and a value that is not None
None == [none |-> TRUE]
Some(v) == [none |-> FALSE, val |-> v]

ALLOWED_EXTS == { <<"j","p","g">>, <<"j","p","e","g">>, <<"p","n","g">>, <<"b","m","p">> }

MIME_JPEG == <<"i","m","a","g","e","/","j","p","e","g">>
MIME_PNG  == <<"i","m","a","g","e","/","p","n","g">>
MIME_BMP  == <<"i","m","a","g","e","/","b","m","p">>

ALLOWED_MIME_TO_EXT == (MIME_JPEG :> <<"j","p","g">>) @@ (MIME_PNG :> <<"p","n","g">>) @@ (MIME_BMP :> <<"b","m","p">>)

MAX_DOWNLOAD_BYTES == 5 * 1024 * 1024

(***************************************************************************)
(* Python's str operations, on sequences of characters.                    *)
(***************************************************************************)
UpperChars == <<"A","B","C","D","E","F","G","H","I","J","K","L","M","N","O","P","Q","R","S","T","U","V","W","X","Y","Z">>
LowerChars == <<"a","b","c","d","e","f","g","h","i","j","k","l","m","n","o","p","q","r","s","t","u","v","w","x","y","z">>
DigitChars == <<"0","1","2","3","4","5","6","7","8","9">>

Range(s) == { s[i] : i \in DOMAIN s }

\* str.lower() of one character
LowerChar(c) == IF \E i \in DOMAIN UpperChars : UpperChars[i] = c
                THEN LowerChars[CHOOSE i \in DOMAIN UpperChars : UpperChars[i] = c]
                ELSE c

\* str.lower()
Lower(s) == [i \in DOMAIN s |-> LowerChar(s[i])]

\* str.rfind(c), as a 1-based position, 0 when c does not occur
RFind(s, c) == IF \E i \in DOMAIN s : s[i] = c
               THEN CHOOSE i \in DOMAIN s : s[i] = c /\ \A j \in DOMAIN s : s[j] = c => j <= i
               ELSE 0

\* str.find(c), as a 1-based position, 0 when c does not occur
Find(s, c) == IF \E i \in DOMAIN s : s[i] = c
              THEN CHOOSE i \in DOMAIN s : s[i] = c /\ \A j \in DOMAIN s : s[j] = c => j >= i
              ELSE 0

\* s[i:] and s[:i] with 1-based bounds
From(s, i) == SubSeq(s, i, Len(s))
Upto(s, i) == SubSeq(s, 1, i)

\* str.startswith(p)
StartsWith(s, p) == Len(s) >= Len(p) /\ Upto(s, Len(p)) = p

\* the characters str.strip() and str.split() treat as whitespace
Whitespace == {" ", "\t", "\n"}

\* str.strip(chars)
RECURSIVE LStripChars(_, _)
LStripChars(s, cs) == IF s # <<>> /\ Head(s) \in cs THEN LStripChars(Tail(s), cs) ELSE s
RECURSIVE RStripChars(_, _)
RStripChars(s, cs) == IF s # <<>> /\ s[Len(s)] \in cs THEN RStripChars(Upto(s, Len(s) - 1), cs) ELSE s
StripChars(s, cs) == RStripChars(LStripChars(s, cs), cs)
Strip(s) == StripChars(s, Whitespace)

\* str(n) for n >= 0
RECURSIVE Str(_)
Str(n) == IF n < 10 THEN <<DigitChars[n + 1]>> ELSE Str(n \div 10) \o <<DigitChars[(n % 10) + 1]>>

(***************************************************************************)
(* Helpers of app.py and the library functions predict and run_yolo call.  *)
(***************************************************************************)
\* a variant of line 49 without .lower()
allowedCaseSensitive(filename) ==
    /\ Find(filename, ".") # 0
    /\ From(filename, RFind(filename, ".") + 1) \in ALLOWED_EXTS

\* allowed(filename), app.py line 49
allowed(filename) ==
    /\ Find(filename, ".") # 0
    /\ Lower(From(filename, RFind(filename, ".") + 1)) \in ALLOWED_EXTS

\* the characters secure_filename keeps: [A-Za-z0-9_.-]
SafeChars == Range(UpperChars) \cup Range(LowerChars) \cup Range(DigitChars) \cup {"_", ".", "-"}

\* one character that has no ASCII decomposition (encode("ascii", "ignore") drops it)
NonAscii == {"U+65E5"}

\* "_".join(s.split()): whitespace runs become one "_", none at either end
RECURSIVE JoinRuns(_)
JoinRuns(s) == IF s = <<>> THEN <<>>
               ELSE IF Head(s) \in Whitespace THEN <<"_">> \o JoinRuns(LStripChars(s, Whitespace))
               ELSE <<Head(s)>> \o JoinRuns(Tail(s))
JoinSplit(s) == JoinRuns(Strip(s))

\* werkzeug.utils.secure_filename on a POSIX host (os.sep = "/", no altsep),
\* called at app.py line 125
secure_filename(filename) ==
    LET ascii    == SelectSeq(filename, LAMBDA c : c \notin NonAscii)
        nosep    == [i \in DOMAIN ascii |-> IF ascii[i] = "/" THEN " " ELSE ascii[i]]
        joined   == JoinSplit(nosep)
        stripped == SelectSeq(joined, LAMBDA c : c \in SafeChars)
    IN  StripChars(stripped, {".", "_"})

\* os.path.splitext (posixpath), called at app.py line 126: <<root, ext>>
splitext(p) ==
    LET sepIndex == RFind(p, "/")
        dotIndex == RFind(p, ".")
    IN  IF dotIndex > sepIndex /\ \E k \in (sepIndex + 1)..(dotIndex - 1) : p[k] # "."
        THEN <<Upto(p, dotIndex - 1), From(p, dotIndex)>>
        ELSE <<p, <<>>>>

\* unique_name(base, ext), app.py line 52, at wall-clock second now
unique_name(base, ext, now) == base \o <<"_">> \o Str(now) \o ext

\* pathlib's Path.suffix and Path.stem of a file name, app.py lines 89-90
PathSuffix(name) ==
    LET i == RFind(name, ".")
    IN  IF 1 < i /\ i < Len(name) THEN From(name, i) ELSE <<>>
PathStem(name) ==
    LET i == RFind(name, ".")
    IN  IF 1 < i /\ i < Len(name) THEN Upto(name, i - 1) ELSE name

\* a variant of lines 89-91 that writes the rendering over the source image
annotated_in_place(name) == PathStem(name) \o PathSuffix(name)

\* the annotated file's name, app.py lines 89-91
annotated_name(name) == PathStem(name) \o <<"_","a","n","n","o","t","a","t","e","d">> \o PathSuffix(name)

\* the media type of a Content-Type header, app.py line 145:
\* header.split(";")[0].strip().lower()
MediaType(header) ==
    LET semi == Find(header, ";")
    IN  Lower(Strip(IF semi = 0 THEN header ELSE Upto(header, semi - 1)))

\* a variant of line 140 that ignores the case of the scheme
HttpSchemeAnyCase(url) ==
    \/ StartsWith(Lower(url), <<"h","t","t","p",":","/","/">>)
    \/ StartsWith(Lower(url), <<"h","t","t","p","s",":","/","/">>)

\* the scheme test of app.py line 140
HttpScheme(url) ==
    \/ StartsWith(url, <<"h","t","t","p",":","/","/">>)
    \/ StartsWith(url, <<"h","t","t","p","s",":","/","/">>)

(***************************************************************************)
(* The inputs the model draws from.                                        *)
(***************************************************************************)
Reqs == {1, 2}

NoFile == [present |-> FALSE, filename |-> <<>>]
Part(filename) == [present |-> TRUE, filename |-> filename]

\* a.JPG, url.jpg and .jpg pass allowed(); doc.pdf, jpg and a.jpg. do not
Filenames == {
    <<"a",".","J","P","G">>,
    <<"u","r","l",".","j","p","g">>,
    <<".","j","p","g">>,
    <<"d","o","c",".","p","d","f">>,
    <<"j","p","g">>,
    <<"a",".","j","p","g",".">> }

URL_FTP   == <<"f","t","p",":","/","/","e","/","a",".","j","p","g">>
URL_HTTP  == <<" ","h","t","t","p",":","/","/","e","/","a"," ">>
URL_HTTPS == <<"h","t","t","p","s",":","/","/","e">>
URL_UPPER == <<"H","T","T","P",":","/","/","e">>

\* the form posted to /predict: the part "image" and the field "image_url"
Forms ==
    { [file |-> Part(f), image_url |-> IF f[1] = "a" THEN URL_HTTPS ELSE <<>>] : f \in Filenames }
    \cup { [file |-> NoFile, image_url |-> u] : u \in {URL_HTTP, URL_UPPER, <<" ">>} }
    \cup { [file |-> Part(<<>>), image_url |-> URL_FTP] }

\* Content-Type headers a remote server may answer with (<<>>: no header)
ContentTypes == {
    MIME_JPEG,
    <<"I","m","a","g","e","/","P","N","G"," ",";"," ","q","=","1">>,
    <<"t","e","x","t","/","h","t","m","l">>,
    <<>> }

\* what requests.get or raise_for_status may raise (str(e) of a RequestException)
FetchErrors == { <<"ConnectTimeout">>, <<"ConnectionError">>, <<"HTTPError">> }
\* what iter_content may raise while the body is streamed
StreamErrors == { <<"ChunkedEncodingError">> }

\* len(chunk) of the chunks iter_content yields
ChunkSizes == {0, 1, MAX_DOWNLOAD_BYTES - 1}

\* the bytes of an uploaded image, and of an annotated image
UploadBytes == 1
AnnotatedBytes == 1

\* the engine's built-in names (res.names: class id -> name), ids from 0
EngineNames == << <<"c","a","t">>, <<"d","o","g">> >>

\* the class ids of the boxes the engine may report for one image
ClassIds == 0..2

\* contents of models/classes.txt, as its lines; None when the file is absent
TableCatDog == << <<"k","i","t","t","y">>, <<" ">>, <<"p","u","p"," ">> >>
ClassFiles == { None, Some(TableCatDog) }

(***************************************************************************)
(* The state.                                                              *)
(***************************************************************************)
VARIABLES
    phase,          \* "boot", "loaded" (model = YOLO(...) done), "serving", "crashed"
    modelExists,    \* whether models/best.pt exists when the process starts
    classesFile,    \* models/classes.txt when the process starts: None or its lines
    CUSTOM_NAMES,   \* the module global of lines 40-44
    engineNames,    \* the names the loaded weights carry (model.names / res.names)
    clock,          \* int(time.time())
    files,          \* static/uploads: file name -> size in bytes
    req,            \* the POST /predict requests, each with the handler's locals
    yolo            \* run_yolo's loop over res.boxes: its locals

vars == <<phase, modelExists, classesFile, CUSTOM_NAMES, engineNames, clock, files, req, yolo>>

\* a request not yet received
Idle == [ pc          |-> "idle",
          form        |-> [file |-> NoFile, image_url |-> <<>>],
          upload_path |-> <<>>,
          total       |-> 0,
          nchunks     |-> 0,
          unlinked    |-> FALSE,
          response    |-> None,
          engine      |-> 0,
          fetches     |-> 0,
          wrote       |-> {},
          inferred    |-> {},
          removed     |-> {} ]

YoloIdle == [pc |-> "idle", boxes |-> <<>>, names |-> <<>>, dets |-> <<>>]

InitWith(classFiles, engines) ==
    /\ phase = "boot"
    /\ modelExists \in BOOLEAN
    /\ classesFile \in classFiles
    /\ engineNames \in engines
    /\ CUSTOM_NAMES = None
    /\ clock = Epoch
    /\ files = <<>>
    /\ req = [r \in Reqs |-> Idle]
    /\ yolo = YoloIdle

Init == InitWith(ClassFiles, {EngineNames})

(***************************************************************************)
(* Startup: the module-level code of lines 32-44.                          *)
(***************************************************************************)
\* a variant of lines 35-36 without the assert
LoadModelNoAssert ==
    /\ phase = "boot"
    /\ phase' = "loaded"
    /\ UNCHANGED <<modelExists, classesFile, CUSTOM_NAMES, engineNames, clock, files, req, yolo>>

\* lines 35-36: the assert, then the one-time model load
LoadModel ==
    /\ phase = "boot"
    /\ phase' = IF modelExists THEN "loaded" ELSE "crashed"
    /\ UNCHANGED <<modelExists, classesFile, CUSTOM_NAMES, engineNames, clock, files, req, yolo>>

\* lines 40-44: [line.strip() for line in f if line.strip()], or None
ReadClasses(file) ==
    IF file.none THEN None
    ELSE Some(SelectSeq([i \in DOMAIN file.val |-> Strip(file.val[i])], LAMBDA l : l # <<>>))

LoadClasses ==
    /\ phase = "loaded"
    /\ CUSTOM_NAMES' = ReadClasses(classesFile)
    /\ phase' = "serving"
    /\ UNCHANGED <<modelExists, classesFile, engineNames, clock, files, req, yolo>>

\* the wall clock passes a second boundary
Tick ==
    /\ phase = "serving"
    /\ clock < Epoch + MaxTicks
    /\ clock' = clock + 1
    /\ UNCHANGED <<phase, modelExists, classesFile, CUSTOM_NAMES, engineNames, files, req, yolo>>

(***************************************************************************)
(* run_yolo's naming of a box, lines 71 and 80.                            *)
(***************************************************************************)
\* Python truthiness of CUSTOM_NAMES: None and [] are false
Truthy(opt) == ~opt.none /\ opt.val # <<>>

\* a variant of line 71 that tests "is not None" instead of truthiness
ActiveNamesIsNotNone(custom, resNames) == IF ~custom.none THEN custom.val ELSE resNames

\* line 71: names = CUSTOM_NAMES if CUSTOM_NAMES else res.names
ActiveNames(custom, resNames) == IF Truthy(custom) THEN custom.val ELSE resNames

\* line 80: names[cls_id] if names and cls_id < len(names) else str(cls_id)
ClassName(names, cls_id) ==
    IF names # <<>> /\ cls_id < Len(names) THEN names[cls_id + 1] ELSE Str(cls_id)

\* lines 78-83: the record of one box (confidence and box_xyxy are the engine's
\* numbers, rounded; no operation of the handlers reads them)
Detection(names, cls_id) == [class_id |-> cls_id, class_name |-> ClassName(names, cls_id)]

\* lines 72-83: the list built from res.boxes
Detections(names, boxes) == [i \in DOMAIN boxes |-> Detection(names, boxes[i])]

(***************************************************************************)
(* The uploads directory.                                                  *)
(***************************************************************************)
Exists(fs, name) == name \in DOMAIN fs

\* the directory with name holding size bytes
Put(fs, name, size) == [n \in DOMAIN fs \cup {name} |-> IF n = name THEN size ELSE fs[n]]

\* os.remove
Remove(fs, name) == [n \in DOMAIN fs \ {name} |-> fs[n]]

Max(a, b) == IF a >= b THEN a ELSE b

(***************************************************************************)
(* Responses.                                                              *)
(***************************************************************************)
\* render_template("index.html", detections=..., image_url=...)
Page(detections, image_url) == Some([detections |-> detections, image_url |-> image_url])

\* the single-element error structure
ErrorPage(text, arg) == Page(<<[error |-> [text |-> text, arg |-> arg]]>>, None)

\* an exception no handler catches: Flask answers 500, no page is rendered
Crash == Some([crash |-> TRUE])

\* url_for("static", filename="uploads/" + name)
url_for_upload(name) == <<"/","s","t","a","t","i","c","/","u","p","l","o","a","d","s","/">> \o name

(***************************************************************************)
(* POST /predict, lines 109-175.                                           *)
(***************************************************************************)
\* line 121: if file and file.filename
Usable(form) == form.file.present /\ form.file.filename # <<>>

\* line 118: (request.form.get("image_url") or "").strip()
image_url_field(form) == Strip(form.image_url)

\* lines 121-123: the upload's filename fails allowed()
UploadReject(r) ==
    /\ phase = "serving" /\ req[r].pc = "idle"
    /\ \E form \in Forms :
        /\ Usable(form)
        /\ ~allowed(form.file.filename)
        /\ req' = [req EXCEPT ![r] = [@ EXCEPT !.pc = "done", !.form = form,
                      !.response = ErrorPage("Unsupported file type", <<>>)]]
    /\ UNCHANGED <<phase, modelExists, classesFile, CUSTOM_NAMES, engineNames, clock, files, yolo>>

\* lines 125-128: the name the upload is stored under
UploadName(filename, now) ==
    LET fname == secure_filename(filename)
        parts == splitext(fname)
    IN  unique_name(parts[1], parts[2], now)

\* lines 121-129: the upload is saved under its unique name
UploadSave(r) ==
    /\ phase = "serving" /\ req[r].pc = "idle"
    /\ \E form \in Forms :
        /\ Usable(form)
        /\ allowed(form.file.filename)
        /\ LET path == UploadName(form.file.filename, clock)
           IN  /\ files' = Put(files, path, UploadBytes)
               /\ req' = [req EXCEPT ![r] = [@ EXCEPT !.pc = "saved", !.form = form,
                             !.upload_path = path, !.wrote = @ \cup {path}]]
    /\ UNCHANGED <<phase, modelExists, classesFile, CUSTOM_NAMES, engineNames, clock, yolo>>

\* lines 139-141: the URL's scheme is neither http nor https
UrlReject(r) ==
    /\ phase = "serving" /\ req[r].pc = "idle"
    /\ \E form \in Forms :
        /\ ~Usable(form)
        /\ image_url_field(form) # <<>>
        /\ ~HttpScheme(image_url_field(form))
        /\ req' = [req EXCEPT ![r] = [@ EXCEPT !.pc = "done", !.form = form,
                      !.response = ErrorPage("Only http/https URLs are allowed", <<>>)]]
    /\ UNCHANGED <<phase, modelExists, classesFile, CUSTOM_NAMES, engineNames, clock, files, yolo>>

\* line 175: neither a file nor a URL
Neither(r) ==
    /\ phase = "serving" /\ req[r].pc = "idle"
    /\ \E form \in Forms :
        /\ ~Usable(form)
        /\ image_url_field(form) = <<>>
        /\ req' = [req EXCEPT ![r] = [@ EXCEPT !.pc = "done", !.form = form,
                      !.response = ErrorPage("Please upload a file or provide an image URL", <<>>)]]
    /\ UNCHANGED <<phase, modelExists, classesFile, CUSTOM_NAMES, engineNames, clock, files, yolo>>

\* a variant in which the URL branch does not depend on the upload branch
FetchableAlways(form) ==
    /\ image_url_field(form) # <<>>
    /\ HttpScheme(image_url_field(form))

\* a form that reaches requests.get, line 143
Fetchable(form) ==
    /\ ~Usable(form)
    /\ image_url_field(form) # <<>>
    /\ HttpScheme(image_url_field(form))

\* lines 143-144, 171-172: requests.get or raise_for_status raises
UrlFetchFail(r) ==
    /\ phase = "serving" /\ req[r].pc = "idle"
    /\ \E form \in Forms, e \in FetchErrors :
        /\ Fetchable(form)
        /\ req' = [req EXCEPT ![r] = [@ EXCEPT !.pc = "done", !.form = form,
                      !.fetches = @ + 1,
                      !.response = ErrorPage("Failed to fetch URL: {e}", e)]]
    /\ UNCHANGED <<phase, modelExists, classesFile, CUSTOM_NAMES, engineNames, clock, files, yolo>>

\* lines 143-147: the response's media type is not in ALLOWED_MIME_TO_EXT
UrlNotImage(r) ==
    /\ phase = "serving" /\ req[r].pc = "idle"
    /\ \E form \in Forms, header \in ContentTypes :
        /\ Fetchable(form)
        /\ MediaType(header) \notin DOMAIN ALLOWED_MIME_TO_EXT
        /\ req' = [req EXCEPT ![r] = [@ EXCEPT !.pc = "done", !.form = form,
                      !.fetches = @ + 1,
                      !.response = ErrorPage("URL is not an image (got {ctype})", MediaType(header))]]
    /\ UNCHANGED <<phase, modelExists, classesFile, CUSTOM_NAMES, engineNames, clock, files, yolo>>

\* lines 149-151: the name a fetched image is stored under
UrlName(ctype, now) == unique_name(<<"u","r","l">>, <<".">> \o ALLOWED_MIME_TO_EXT[ctype], now)

\* lines 143-154: the response is an image; the file is opened for writing
\* (created, or truncated when the name exists)
UrlOpen(r) ==
    /\ phase = "serving" /\ req[r].pc = "idle"
    /\ \E form \in Forms, header \in ContentTypes :
        /\ Fetchable(form)
        /\ MediaType(header) \in DOMAIN ALLOWED_MIME_TO_EXT
        /\ LET path == UrlName(MediaType(header), clock)
           IN  /\ files' = Put(files, path, 0)
               /\ req' = [req EXCEPT ![r] = [@ EXCEPT !.pc = "stream", !.form = form,
                             !.fetches = @ + 1, !.upload_path = path, !.total = 0,
                             !.wrote = @ \cup {path}]]
    /\ UNCHANGED <<phase, modelExists, classesFile, CUSTOM_NAMES, engineNames, clock, yolo>>

\* lines 155-157: an empty chunk is skipped
ChunkEmpty(r) ==
    /\ req[r].pc = "stream" /\ req[r].nchunks < MaxChunks
    /\ 0 \in ChunkSizes
    /\ req' = [req EXCEPT ![r] = [@ EXCEPT !.nchunks = @ + 1]]
    /\ UNCHANGED <<phase, modelExists, classesFile, CUSTOM_NAMES, engineNames, clock, files, yolo>>

\* line 159: the test that aborts the download
TooLarge(total) == total > MAX_DOWNLOAD_BYTES

\* lines 158-163: a chunk within the cap is written at the handle's offset; a
\* handle whose file another request removed writes to the unlinked file
ChunkWrite(r) ==
    /\ req[r].pc = "stream" /\ req[r].nchunks < MaxChunks
    /\ \E n \in ChunkSizes \ {0} :
        LET total == req[r].total + n
            path  == req[r].upload_path
        IN  /\ ~TooLarge(total)
            /\ files' = IF req[r].unlinked THEN files
                        ELSE Put(files, path, Max(files[path], total))
            /\ req' = [req EXCEPT ![r] = [@ EXCEPT !.nchunks = @ + 1, !.total = total]]
    /\ UNCHANGED <<phase, modelExists, classesFile, CUSTOM_NAMES, engineNames, clock, yolo>>

\* lines 158-162: the chunk that passes the cap: close, os.remove, the error
\* page; os.remove of a name that is gone raises FileNotFoundError, which
\* line 171 does not catch
ChunkTooLarge(r) ==
    /\ req[r].pc = "stream" /\ req[r].nchunks < MaxChunks
    /\ \E n \in ChunkSizes \ {0} :
        LET total == req[r].total + n
            path  == req[r].upload_path
        IN  /\ TooLarge(total)
            /\ IF Exists(files, path)
               THEN /\ files' = Remove(files, path)
                    /\ req' = [q \in Reqs |->
                                 IF q = r
                                 THEN [req[r] EXCEPT !.pc = "done", !.nchunks = 0,
                                          !.total = total, !.removed = @ \cup {path},
                                          !.response = ErrorPage("Image too large (>5MB)", <<>>)]
                                 ELSE IF req[q].pc = "stream" /\ req[q].upload_path = path
                                 THEN [req[q] EXCEPT !.unlinked = TRUE]
                                 ELSE req[q]]
               ELSE /\ files' = files
                    /\ req' = [req EXCEPT ![r] = [@ EXCEPT !.pc = "done", !.nchunks = 0,
                                  !.total = total, !.response = Crash]]
    /\ UNCHANGED <<phase, modelExists, classesFile, CUSTOM_NAMES, engineNames, clock, yolo>>

\* lines 155, 171-172: iter_content raises while the body is streamed; the
\* with block closes the file and the handler renders the error
StreamFail(r) ==
    /\ req[r].pc = "stream"
    /\ \E e \in StreamErrors :
        req' = [req EXCEPT ![r] = [@ EXCEPT !.pc = "done", !.nchunks = 0,
                   !.response = ErrorPage("Failed to fetch URL: {e}", e)]]
    /\ UNCHANGED <<phase, modelExists, classesFile, CUSTOM_NAMES, engineNames, clock, files, yolo>>

\* lines 154-163: the body ends; the with block closes the file
StreamEnd(r) ==
    /\ req[r].pc = "stream"
    /\ req' = [req EXCEPT ![r] = [@ EXCEPT !.pc = "closed", !.nchunks = 0]]
    /\ UNCHANGED <<phase, modelExists, classesFile, CUSTOM_NAMES, engineNames, clock, files, yolo>>

\* box lists the engine may report in a request
EngineResults == { <<>>, <<0, 2>> }

\* lines 132-136 and 166-169: run_yolo on the stored image, then the page
RunYoloOk(r) ==
    /\ req[r].pc \in {"saved", "closed"}
    /\ Exists(files, req[r].upload_path)
    /\ \E boxes \in EngineResults :
        LET path      == req[r].upload_path
            dets      == Detections(ActiveNames(CUSTOM_NAMES, engineNames), boxes)
            annotated == annotated_name(path)
        IN  /\ files' = Put(files, annotated, AnnotatedBytes)
            /\ req' = [req EXCEPT ![r] = [@ EXCEPT !.pc = "done", !.engine = @ + 1,
                          !.inferred = @ \cup {path}, !.wrote = @ \cup {annotated},
                          !.response = Page(dets, Some(url_for_upload(annotated)))]]
    /\ UNCHANGED <<phase, modelExists, classesFile, CUSTOM_NAMES, engineNames, clock, yolo>>

\* lines 132 and 166: model.predict, res.plot or cv2.imwrite raises (the
\* stored image is gone, or is not an image the engine reads); nothing
\* catches it
RunYoloRaise(r) ==
    /\ req[r].pc \in {"saved", "closed"}
    /\ req' = [req EXCEPT ![r] = [@ EXCEPT !.pc = "done", !.engine = @ + 1,
                  !.inferred = @ \cup {req[r].upload_path},
                  !.response = Crash]]
    /\ UNCHANGED <<phase, modelExists, classesFile, CUSTOM_NAMES, engineNames, clock, files, yolo>>

Next ==
    \/ LoadModel
    \/ LoadClasses
    \/ Tick
    \/ \E r \in Reqs :
        \/ UploadReject(r)
        \/ UploadSave(r)
        \/ UrlReject(r)
        \/ Neither(r)
        \/ UrlFetchFail(r)
        \/ UrlNotImage(r)
        \/ UrlOpen(r)
        \/ ChunkEmpty(r)
        \/ ChunkWrite(r)
        \/ ChunkTooLarge(r)
        \/ StreamFail(r)
        \/ StreamEnd(r)
        \/ RunYoloOk(r)
        \/ RunYoloRaise(r)

Spec == Init /\ [][Next]_vars

(***************************************************************************)
(* run_yolo's loop over the boxes of one result, lines 60-83, under every  *)
(* startup the class-name file and the weights allow.                      *)
(***************************************************************************)
EngineNames3 == << <<"c","a","t">>, <<"d","o","g">>, <<"f","o","x">> >>
YoloEngines == { <<>>, EngineNames, EngineNames3 }

YoloClassFiles == {
    None,
    Some(<<>>),
    Some(<< <<" ">> >>),
    Some(<< <<" ","k","i","t","t","y">> >>),
    Some(TableCatDog) }

\* the box lists of at most n class ids
RECURSIVE BoxLists(_)
BoxLists(n) == IF n = 0 THEN {<<>>}
               ELSE BoxLists(n - 1) \cup { Append(b, c) : b \in { x \in BoxLists(n - 1) : Len(x) = n - 1 }, c \in ClassIds }

YoloInit == InitWith(YoloClassFiles, YoloEngines)

\* lines 60-72: model.predict returns the boxes; names is chosen; dets = []
YoloPredict ==
    /\ phase = "serving" /\ yolo.pc = "idle"
    /\ \E boxes \in BoxLists(MaxBoxes) :
        yolo' = [pc |-> "boxes", boxes |-> boxes,
                 names |-> ActiveNames(CUSTOM_NAMES, engineNames), dets |-> <<>>]
    /\ UNCHANGED <<phase, modelExists, classesFile, CUSTOM_NAMES, engineNames, clock, files, req>>

\* lines 74-83: one turn of the loop appends the next box's record
YoloBox ==
    /\ yolo.pc = "boxes"
    /\ Len(yolo.dets) < Len(yolo.boxes)
    /\ yolo' = [yolo EXCEPT !.dets = Append(@, Detection(yolo.names, yolo.boxes[Len(yolo.dets) + 1]))]
    /\ UNCHANGED <<phase, modelExists, classesFile, CUSTOM_NAMES, engineNames, clock, files, req>>

\* line 96: the loop is over; run_yolo returns dets
YoloReturn ==
    /\ yolo.pc = "boxes"
    /\ Len(yolo.dets) = Len(yolo.boxes)
    /\ yolo' = [yolo EXCEPT !.pc = "done"]
    /\ UNCHANGED <<phase, modelExists, classesFile, CUSTOM_NAMES, engineNames, clock, files, req>>

YoloNext == LoadModel \/ LoadClasses \/ YoloPredict \/ YoloBox \/ YoloReturn

SpecYolo == YoloInit /\ [][YoloNext]_vars

(***************************************************************************)
(* What the claims speak of.                                               *)
(***************************************************************************)
Received(r) == req[r].pc # "idle"
Returned(r) == req[r].pc = "done"

\* the handler rendered the page (as opposed to an uncaught exception)
Rendered(r) == Returned(r) /\ "detections" \in DOMAIN req[r].response.val

IsErrorElement(d) == "error" \in DOMAIN d

\* the page shows a user-visible error
ErrorShown(r) == Rendered(r) /\ \E i \in DOMAIN req[r].response.val.detections :
                                   IsErrorElement(req[r].response.val.detections[i])
ErrorText(r) == req[r].response.val.detections[1].error.text
Shows(r, text) == ErrorShown(r) /\ ErrorText(r) = text

TooLargeText == "Image too large (>5MB)"

\* the extension of a submitted filename: the text after its last "."
SubmittedExt(filename) ==
    LET dots == { i \in DOMAIN filename : filename[i] = "." }
        last == CHOOSE i \in dots : \A j \in dots : j <= i
    IN  SubSeq(filename, last + 1, Len(filename))

HasDot(filename) == \E i \in DOMAIN filename : filename[i] = "."

ExtensionAllowed(filename) ==
    HasDot(filename) /\ Lower(SubmittedExt(filename)) \in
        { <<"j","p","g">>, <<"j","p","e","g">>, <<"p","n","g">>, <<"b","m","p">> }

EndsWith(s, t) == Len(s) >= Len(t) /\ SubSeq(s, Len(s) - Len(t) + 1, Len(s)) = t

FileUsable(r) == req[r].form.file.present /\ req[r].form.file.filename # <<>>

\* the request is on the URL path and its URL has neither scheme
BadScheme(r) ==
    LET url == Strip(req[r].form.image_url)
    IN  /\ Received(r) /\ ~FileUsable(r)
        /\ url # <<>>
        /\ ~StartsWith(url, <<"h","t","t","p",":","/","/">>)
        /\ ~StartsWith(url, <<"h","t","t","p","s",":","/","/">>)

(***************************************************************************)
(* C1: a request that ends in a user-visible error leaves the uploads      *)
(* directory as it was, unless the error is the size cap, and then it      *)
(* created exactly one file and deleted it.                                *)
(***************************************************************************)
C1_ErrorsLeaveNoFile ==
    \A r \in Reqs : ErrorShown(r) =>
        IF ErrorText(r) = TooLargeText
        THEN /\ req[r].wrote = {req[r].upload_path}
             /\ req[r].removed = {req[r].upload_path}
        ELSE /\ req[r].wrote = {}
             /\ req[r].removed = {}

(***************************************************************************)
(* C2: a download whose byte count passes 5 MiB is answered "Image too     *)
(* large (>5MB)", its partial file removed and the engine never invoked;   *)
(* a download that stays within 5 MiB is not rejected for size; the file   *)
(* of a download in progress never holds more than 5 MiB.                  *)
(***************************************************************************)
C2_SizeCap ==
    \A r \in Reqs :
        /\ (Returned(r) /\ req[r].total > 5 * 1024 * 1024) =>
              /\ Shows(r, TooLargeText)
              /\ req[r].removed = {req[r].upload_path}
              /\ req[r].engine = 0
        /\ (Received(r) /\ req[r].total <= 5 * 1024 * 1024) => ~Shows(r, TooLargeText)
        /\ (req[r].pc = "stream" /\ req[r].upload_path \in DOMAIN files) =>
              files[req[r].upload_path] <= 5 * 1024 * 1024

(***************************************************************************)
(* C3: a request on the URL path whose trimmed URL starts with neither     *)
(* "http://" nor "https://" is answered "Only http/https URLs are          *)
(* allowed"; nothing is fetched, no file is written, the engine is not     *)
(* invoked.                                                                *)
(***************************************************************************)
C3_BadSchemeNoFetch ==
    \A r \in Reqs : BadScheme(r) =>
        /\ Shows(r, "Only http/https URLs are allowed")
        /\ req[r].fetches = 0
        /\ req[r].wrote = {}
        /\ req[r].engine = 0

C3_Witness ==
    \E r \in Reqs : BadScheme(r) /\ Returned(r) /\ StartsWith(req[r].form.image_url, <<"H","T","T","P">>)

(***************************************************************************)
(* C4: an upload is answered "Unsupported file type" exactly when its      *)
(* filename has no "." or its extension, lower-cased, is not jpg, jpeg,    *)
(* png or bmp; a rejected upload writes no file and never reaches the      *)
(* engine; an accepted one is saved and then handed to the engine.         *)
(***************************************************************************)
C4_ExtensionCheck ==
    \A r \in Reqs : (Received(r) /\ FileUsable(r)) =>
        IF ExtensionAllowed(req[r].form.file.filename)
        THEN /\ ~ErrorShown(r)
             /\ req[r].upload_path \in req[r].wrote
             /\ req[r].pc = "saved" \/ (Returned(r) /\ req[r].engine = 1
                                           /\ req[r].inferred = {req[r].upload_path})
        ELSE /\ Shows(r, "Unsupported file type")
             /\ req[r].wrote = {}
             /\ req[r].engine = 0

C4_Witness ==
    /\ \E r \in Reqs : Shows(r, "Unsupported file type") /\ ~HasDot(req[r].form.file.filename)
    /\ \E r \in Reqs : /\ Returned(r) /\ req[r].engine = 1
                       /\ SubmittedExt(req[r].form.file.filename) = <<"J","P","G">>

(***************************************************************************)
(* C5: a rendered response is either a list of Detection records with a    *)
(* reference to uploads/{stem}_annotated{ext} of the image this request    *)
(* stored, a file other than the stored image, or exactly one error        *)
(* element with no image reference; never a mix.                           *)
(***************************************************************************)
SuccessShape(r) ==
    LET page   == req[r].response.val
        stored == req[r].upload_path
        target == PathStem(stored) \o <<"_","a","n","n","o","t","a","t","e","d">> \o PathSuffix(stored)
    IN  /\ \A i \in DOMAIN page.detections :
              DOMAIN page.detections[i] = {"class_id", "class_name"}
        /\ ~page.image_url.none
        /\ page.image_url.val = <<"/","s","t","a","t","i","c","/","u","p","l","o","a","d","s","/">> \o target
        /\ stored \in req[r].wrote
        /\ target \in req[r].wrote
        /\ target # stored

ErrorShape(r) ==
    LET page == req[r].response.val
    IN  /\ Len(page.detections) = 1
        /\ DOMAIN page.detections[1] = {"error"}
        /\ page.image_url.none

C5_ResponseShapes ==
    \A r \in Reqs : Rendered(r) =>
        /\ SuccessShape(r) \/ ErrorShape(r)
        /\ ~(SuccessShape(r) /\ ErrorShape(r))

C5_Witness ==
    /\ \E r \in Reqs : Rendered(r) /\ SuccessShape(r) /\ req[r].response.val.detections = <<>>
    /\ \E r \in Reqs : Rendered(r) /\ SuccessShape(r) /\ Len(req[r].response.val.detections) = 2

(***************************************************************************)
(* C6 as claimed: the name of a box is the table's entry when the table is *)
(* loaded and the class id is in its range, else the engine's name for the *)
(* id, else the id in decimal.                                             *)
(***************************************************************************)
TableLoaded == ~CUSTOM_NAMES.none
InTable(id) == TableLoaded /\ id < Len(CUSTOM_NAMES.val)
InEngine(id) == id < Len(engineNames)

C6_ThreeLevelFallback ==
    \A i \in DOMAIN yolo.dets :
        LET id == yolo.dets[i].class_id
        IN  yolo.dets[i].class_name =
                IF InTable(id) THEN CUSTOM_NAMES.val[id + 1]
                ELSE IF InEngine(id) THEN engineNames[id + 1]
                ELSE Str(id)

(***************************************************************************)
(* C6 amended: one table is consulted, the class-name table when it holds  *)
(* at least one name and the engine's names otherwise; the name is that    *)
(* table's entry when the class id is in its range and the id in decimal   *)
(* when it is not. The i-th record names the i-th box.                     *)
(***************************************************************************)
C6_TwoLevelFallback ==
    /\ Len(yolo.dets) <= Len(yolo.boxes)
    /\ \A i \in DOMAIN yolo.dets :
        LET id == yolo.dets[i].class_id
        IN  /\ id = yolo.boxes[i]
            /\ yolo.dets[i].class_name =
                  IF TableLoaded /\ Len(CUSTOM_NAMES.val) > 0
                  THEN (IF id < Len(CUSTOM_NAMES.val) THEN CUSTOM_NAMES.val[id + 1] ELSE Str(id))
                  ELSE (IF InEngine(id) THEN engineNames[id + 1] ELSE Str(id))

\* a loaded table, a class id beyond it that the engine has a name for: the
\* record carries the id in decimal
C6_Witness ==
    /\ yolo.pc = "done"
    /\ \E i \in DOMAIN yolo.dets :
        LET id == yolo.dets[i].class_id
        IN  /\ TableLoaded /\ Len(CUSTOM_NAMES.val) > 0 /\ ~InTable(id) /\ InEngine(id)
            /\ yolo.dets[i].class_name = Str(id)
    /\ \E i \in DOMAIN yolo.dets : InTable(yolo.dets[i].class_id)

(***************************************************************************)
(* C7 as claimed: with the weights file or the class-name file missing at  *)
(* startup the process never serves.                                       *)
(***************************************************************************)
Serving == phase = "serving" \/ \E r \in Reqs : Received(r)

C7_MissingFileIsFatal == (~modelExists \/ classesFile.none) => ~Serving

(***************************************************************************)
(* C7 amended: with the weights file missing the process never serves; a   *)
(* missing class-name file is not fatal (the table is then None); requests *)
(* are handled only once the model load and the class-name load are done.  *)
(***************************************************************************)
C7_MissingModelIsFatal ==
    /\ ~modelExists => ~Serving /\ phase \in {"boot", "crashed"}
    /\ Serving => phase = "serving" /\ modelExists
    /\ (phase = "serving" /\ classesFile.none) => CUSTOM_NAMES.none
    /\ (phase = "serving" /\ ~classesFile.none) => ~CUSTOM_NAMES.none

C7_Witness == ~modelExists /\ phase = "crashed"

(***************************************************************************)
(* C8: no file one request writes is written, read for inference or        *)
(* deleted by another request.                                             *)
(***************************************************************************)
C8_NoSharedFiles ==
    \A r1, r2 \in Reqs : r1 # r2 =>
        req[r1].wrote \cap (req[r2].wrote \cup req[r2].inferred \cup req[r2].removed) = {}

(***************************************************************************)
(* C9: acquire, detect, respond, once each: the engine is invoked at most  *)
(* once per request, only on a stored image whose file is closed, never on *)
(* a request that shows an error; the URL is fetched at most once and      *)
(* never when a usable file part is present; a request gets one response,  *)
(* when its handler returns, and the response never changes.               *)
(***************************************************************************)
C9_State ==
    \A r \in Reqs :
        /\ req[r].engine <= 1
        /\ req[r].fetches <= 1
        /\ ErrorShown(r) => req[r].engine = 0 /\ req[r].inferred = {}
        /\ (Received(r) /\ FileUsable(r)) => req[r].fetches = 0
        /\ req[r].engine = 1 => req[r].inferred = {req[r].upload_path}
        /\ Returned(r) <=> ~req[r].response.none

C9_Step ==
    \A r \in Reqs :
        /\ req[r].engine' # req[r].engine =>
              /\ req[r].pc \in {"saved", "closed"}
              /\ req[r].upload_path \in req[r].wrote
              /\ req[r].pc' = "done"
        /\ req[r].fetches' # req[r].fetches => req[r].pc = "idle"
        /\ ~req[r].response.none => req[r]' = req[r]

C9_AcquireDetectRespond == [](C9_State) /\ [][C9_Step]_vars

C9_Witness ==
    /\ \E r \in Reqs : Returned(r) /\ req[r].engine = 1 /\ req[r].fetches = 1 /\ req[r].total > 0
    /\ \E r \in Reqs : Returned(r) /\ FileUsable(r) /\ req[r].form.image_url # <<>> /\ req[r].engine = 1

(***************************************************************************)
(* C10: an upload that passes the extension check is stored under          *)
(* {base}_{timestamp}.{ext} with ext the submitted extension, and the      *)
(* annotated file's name ends in that extension too.                       *)
(***************************************************************************)
C10_ExtensionKept ==
    \A r \in Reqs :
        (Received(r) /\ FileUsable(r) /\ ExtensionAllowed(req[r].form.file.filename)) =>
            LET ext    == <<".">> \o SubmittedExt(req[r].form.file.filename)
                stored == req[r].upload_path
            IN  /\ \E t \in Epoch..(Epoch + MaxTicks) : EndsWith(stored, <<"_">> \o Str(t) \o ext)
                /\ EndsWith(PathStem(stored) \o <<"_","a","n","n","o","t","a","t","e","d">> \o PathSuffix(stored), ext)

====
